---------------------------- MODULE Spec2Model ----------------------------
(***************************************************************************)
(* Model of src/imageio.cc: the FITS image loader from_image and the four  *)
(* write_image instantiations, together with the external image-file       *)
(* library calls they make.                                                *)
(*                                                                         *)
(* A value of the C type long (64 bits, LP64) is kept as its eight         *)
(* two's-complement bytes, least significant first, because the extents a  *)
(* file reports exceed the integers TLC computes with.  A value of the C   *)
(* type int is an ordinary integer.                                        *)
(***************************************************************************)
EXTENDS Integers, Sequences, FiniteSets, TLC

\* ------------------------------------------------------------------ bounds
\* Largest number of pixels a file on disk or a container to write holds.
MaxPix == 2

\* ------------------------------------------------------- program constants
INT_MAX == 2147483647
ByteRadix == 256
LongBytes == 8
FLOAT_IMG == -32
DOUBLE_IMG == -64
TFLOAT == 42
TDOUBLE == 82
IMAGE_HDU == 0
ASCII_TBL == 1
BINARY_TBL == 2
\* The bit pattern of std::numeric_limits<T>::quiet_NaN(), as a pixel code.
QNaN == 0

\* ----------------------------------------------------------- long values
\* The low 31 bits of a byte string, as an integer.
Low31(a) == a[1] + 256 * a[2] + 65536 * a[3] + 16777216 * (a[4] % 128)

\* static_cast<int>(long): the low 32 bits, read as two's complement.
IntOfLong(a) == IF a[4] >= 128 THEN (Low31(a) - 2147483647) - 1 ELSE Low31(a)

\* The conversion int -> long of an initialiser: sign extension.
LongOfInt(n) ==
    LET m == IF n < 0 THEN (n + 2147483647) + 1 ELSE n
        top == IF n < 0 THEN 128 ELSE 0
        ext == IF n < 0 THEN 255 ELSE 0
    IN  [i \in 1..LongBytes |->
            CASE i = 1 -> m % 256
              [] i = 2 -> (m \div 256) % 256
              [] i = 3 -> (m \div 65536) % 256
              [] i = 4 -> ((m \div 16777216) % 128) + top
              [] OTHER -> ext]

LongIsNeg(a) == a[LongBytes] >= 128
LongIsZero(a) == \A i \in 1..LongBytes : a[i] = 0

\* a < 1 for a long a.
LongLt1(a) == LongIsNeg(a) \/ LongIsZero(a)

\* An unsigned byte string of any length is >= INT_MAX.
BytesGeIntMax(p) ==
    \/ \E i \in 5..Len(p) : p[i] # 0
    \/ p[4] >= 128
    \/ Low31(p) >= INT_MAX

\* a >= std::numeric_limits<int>::max() for a long a.
LongGeIntMax(a) == ~LongIsNeg(a) /\ BytesGeIntMax(a)

\* The sum of the byte products that land in column k (0-based) of a * b.
RECURSIVE MulCol(_, _, _, _)
MulCol(a, b, k, i) ==
    IF i > LongBytes THEN 0
    ELSE (IF k - (i - 1) >= 0 /\ k - (i - 1) < LongBytes
          THEN a[i] * b[k - (i - 1) + 1] ELSE 0) + MulCol(a, b, k, i + 1)

RECURSIVE MulFrom(_, _, _, _)
MulFrom(a, b, k, carry) ==
    IF k = 2 * LongBytes THEN <<>>
    ELSE LET t == MulCol(a, b, k, 1) + carry
         IN  <<t % ByteRadix>> \o MulFrom(a, b, k + 1, t \div ByteRadix)

\* The mathematical product of two non-negative longs, sixteen bytes.
MulBytes(a, b) == MulFrom(a, b, 0, 0)

\* A sixteen-byte product does not fit the 64-bit signed type.
Overflows64(p) == (\E i \in (LongBytes + 1)..Len(p) : p[i] # 0) \/ p[LongBytes] >= 128

\* ------------------------------------------------- template specialisations
Precisions == {"float", "double"}

get_fits_type(T) == IF T = "float" THEN TFLOAT ELSE TDOUBLE

get_fits_bitpix(T) == IF T = "float" THEN FLOAT_IMG ELSE DOUBLE_IMG

\* T nulval = std::numeric_limits<T>::quiet_NaN();
nulval(T) == QNaN

\* ------------------------------------------------------ the image library
\* Pixel codes: QNaN is the NaN bit pattern (the file format's undefined
\* pixel), 2 a value both precisions hold exactly, 3 a value only 64-bit
\* floats hold exactly.
PixelValues(T) == IF T = "float" THEN {QNaN, 2} ELSE {QNaN, 2, 3}

\* The value a pixel takes when it is stored with the given width.
RoundTo(width, v) == IF width = FLOAT_IMG /\ v # QNaN THEN 2 * (v \div 2) ELSE v

WidthOfType(datatype) == IF datatype = TFLOAT THEN FLOAT_IMG ELSE DOUBLE_IMG

\* IEEE equality: a NaN equals nothing.
IEEEEq(a, b) == a # QNaN /\ b # QNaN /\ a = b

\* fits_write_imgnull: a pixel equal to the null value is stored undefined,
\* any other pixel is converted to the image's storage width.
WritePix(v, nul, bitpix) == IF IEEEEq(v, nul) THEN QNaN ELSE RoundTo(bitpix, v)

\* fits_read_img: an undefined pixel is replaced by the null value, any
\* other pixel is converted to the requested type.
ReadPix(v, datatype, nul) == IF v = QNaN THEN nul ELSE RoundTo(WidthOfType(datatype), v)

StatusOk == 0
\* Status values a library call may report: failure is always possible, and
\* success only when the call's preconditions hold.
LibStatus(possible) == IF possible THEN {StatusOk, 104} ELSE {104}

\* ------------------------------------------------------------ containers
NoImage == [T |-> "none", ext |-> <<>>, p |-> <<>>, allocated |-> FALSE]

\* Image1D<T> img(x) and Image2D<T> img(x, y): extents stored, no storage.
Image(T, ext) == [T |-> T, ext |-> ext, p |-> <<>>, allocated |-> FALSE]

\* The extents describe a container the rest of the system can index.
ValidExtents(ext) ==
    /\ \A i \in 1..Len(ext) : ext[i] >= 1
    /\ Len(ext) = 2 => ext[1] <= (INT_MAX - 1) \div ext[2]

\* size(): x or x*y.
Size(ext) == IF Len(ext) = 1 THEN ext[1] ELSE ext[1] * ext[2]

\* alloc() aborts when storage exists already or the extents are invalid.
AllocFails(img) == img.allocated \/ ~ValidExtents(img.ext)

NullDriver == [null |-> TRUE, T |-> "none", rank |-> 0, img |-> NoImage]

\* new Driver<T,ImageND<T> >(settings, img)
Driver(T, img) == [null |-> FALSE, T |-> T, rank |-> Len(img.ext), img |-> img]

\* ------------------------------------------------------------ diagnostics
\* A line written to the error stream: its text and the number, name or
\* extents printed in it.
Diag(msg, num, name, dims) == [msg |-> msg, num |-> num, name |-> name, dims |-> dims]

\* -------------------------------------------------------------- the gates
\* fcheck that lets a failed call pass.
fcheck_ignored(s) == FALSE

\* fcheck: a non-zero status is reported and ends the process.
fcheck(s) == s # StatusOk

\* The low 64 bits of a product, read as a signed value, are >= INT_MAX.
WrappedGeIntMax(prod) ==
    LET w == SubSeq(prod, 1, LongBytes) IN ~LongIsNeg(w) /\ BytesGeIntMax(w)

\* The outcomes of verify_dim_2d.  x * y is a signed 64-bit product: when
\* the mathematical product does not fit, the behaviour is undefined; the
\* comparison then sees the wrapped two's-complement product or the true one.
verify_dim_2d(naxes) ==
    LET x == naxes[1]
        y == naxes[2]
        prod == MulBytes(x, y)
    IN  IF LongLt1(x) \/ LongLt1(y) THEN {"too small"}
        ELSE IF Overflows64(prod)
        THEN {IF WrappedGeIntMax(prod) THEN "too large" ELSE "ok", "too large"}
        ELSE IF BytesGeIntMax(prod) THEN {"too large"}
        ELSE {"ok"}

\* verify_dim_1d with the lower test written x < 0.
verify_dim_1d_lt0(naxes) ==
    LET x == naxes[1]
    IN  IF LongIsNeg(x) THEN {"too small"}
        ELSE IF LongGeIntMax(x) THEN {"too large"}
        ELSE {"ok"}

verify_dim_1d(naxes) ==
    LET x == naxes[1]
    IN  IF LongLt1(x) THEN {"too small"}
        ELSE IF LongGeIntMax(x) THEN {"too large"}
        ELSE {"ok"}

verify_dim(rank, naxes) == IF rank = 1 THEN verify_dim_1d(naxes) ELSE verify_dim_2d(naxes)

\* int x = static_cast<int>(naxes[0]); int y = static_cast<int>(naxes[1]);
NarrowExtents(rank, naxes) == [i \in 1..rank |-> IntOfLong(naxes[i])]

\* The hdutype part of open_image_for_reading's diagnostic.
HduName(hdutype) ==
    IF hdutype = ASCII_TBL THEN "ASCII_TBL"
    ELSE IF hdutype = BINARY_TBL THEN "BINARY_TBL"
    ELSE "other"

\* hdutype != IMAGE_HDU, the test of open_image_for_reading.
NotImage_unchecked(hdutype) == FALSE

NotImage(hdutype) == hdutype # IMAGE_HDU

\* The two instantiations exchanged.
SelectPrecision_swapped(bitpix) ==
    IF bitpix = get_fits_bitpix("float") THEN "double"
    ELSE IF bitpix = get_fits_bitpix("double") THEN "float"
    ELSE "none"

\* from_image's choice of instantiation ("none": the fatal branch).
SelectPrecision(bitpix) ==
    IF bitpix = get_fits_bitpix("float") THEN "float"
    ELSE IF bitpix = get_fits_bitpix("double") THEN "double"
    ELSE "none"

\* from_image's diagnostic for an unexpected data type.
TypeDiag(bitpix) ==
    IF bitpix < 0
    THEN Diag("unexpected data type: -bit floats", -bitpix, "", <<>>)
    ELSE Diag("unexpected data type: -bit integers", bitpix, "", <<>>)

\* The rank dispatch without its fatal branch.
SelectRank_no_else(naxis) == IF naxis = 1 THEN 1 ELSE 2

\* from_image_helper's choice of reader (0: the fatal branch).
SelectRank(naxis) == IF naxis = 1 THEN 1 ELSE IF naxis = 2 THEN 2 ELSE 0

\* The extents declared in reverse order.
WriteNaxes_swapped(img) ==
    [i \in 1..Len(img.ext) |-> LongOfInt(img.ext[Len(img.ext) + 1 - i])]

\* long naxes[] = {img.x, img.y} / {img.x} of write_image.
WriteNaxes(img) == [i \in 1..Len(img.ext) |-> LongOfInt(img.ext[i])]

\* ------------------------------------------------------------------ inputs
\* Extents a file may report: -2^63, -1, 0, 1, 2, 46340, 46341, 2^30-1,
\* 2^30, 2^31-2, 2^31-1, 2^31, 2^32, 2^62+1 and 2^63-1.
Extents ==
    { <<0, 0, 0, 0, 0, 0, 0, 128>>,
      LongOfInt(-1), LongOfInt(0), LongOfInt(1), LongOfInt(2),
      LongOfInt(46340), LongOfInt(46341),
      LongOfInt(1073741823), LongOfInt(1073741824),
      LongOfInt(2147483646), LongOfInt(2147483647),
      <<0, 0, 0, 128, 0, 0, 0, 0>>,
      <<0, 0, 0, 0, 1, 0, 0, 0>>,
      <<1, 0, 0, 0, 0, 0, 0, 64>>,
      <<255, 255, 255, 255, 255, 255, 255, 127>> }

Bitpixes == {8, 16, 32, 64, FLOAT_IMG, DOUBLE_IMG}

HduTypes == {IMAGE_HDU, ASCII_TBL, BINARY_TBL}

SeqsUpTo(S, n) == UNION {[1..k -> S] : k \in 0..n}

NoFile == [exists |-> FALSE, hdutype |-> IMAGE_HDU, bitpix |-> 8, naxis |-> 0,
           naxes |-> <<>>, data |-> <<>>]

AxesOf(naxis) == IF naxis = 3 THEN {[i \in 1..3 |-> LongOfInt(1)]}
                 ELSE [1..naxis -> Extents]

\* The pixels a file holds; a header may declare more than the file holds.
DataOf(hdutype, bitpix) ==
    IF hdutype = IMAGE_HDU /\ bitpix \in {FLOAT_IMG, DOUBLE_IMG}
    THEN SeqsUpTo(PixelValues(SelectPrecision(bitpix)), MaxPix)
    ELSE {<<>>}

ExternalFiles ==
    {NoFile} \cup
    UNION { UNION { UNION {
        { [exists |-> TRUE, hdutype |-> h, bitpix |-> b, naxis |-> n,
           naxes |-> ax, data |-> d] : ax \in AxesOf(n), d \in DataOf(h, b) }
        : n \in 0..3 } : b \in Bitpixes } : h \in HduTypes }

\* Populated containers handed to write_image.
ExtentsToWrite ==
    { e \in UNION {[1..r -> 1..MaxPix] : r \in 1..2} : Size(e) <= MaxPix }

Containers ==
    UNION { UNION {
        { [T |-> T, ext |-> e, p |-> d, allocated |-> TRUE]
            : d \in [1..Size(e) -> (PixelValues(T))] }
        : e \in ExtentsToWrite } : T \in Precisions }

\* ------------------------------------------------------------------- state
VARIABLES
    pc,          \* where the program is
    file,        \* the file at the path
    handles,     \* number of open fitsfile handles
    calls,       \* the library calls, allocations and constructions so far
    inst,        \* the instantiation T that from_image selected
    rank,        \* the reader from_image_helper selected
    naxes,       \* long naxes[2] of the reader
    img,         \* the container being loaded
    anynul,      \* int anynul of the reader
    result,      \* the VDriver* from_image returned
    stderr,      \* diagnostics written to the error stream
    exitStatus,  \* "running", or how the process ended
    wimg         \* the container given to write_image

vars == <<pc, file, handles, calls, inst, rank, naxes, img, anynul, result,
          stderr, exitStatus, wimg>>

locals == <<inst, rank, naxes, img, anynul, result>>

Init ==
    /\ \/ pc = "from_image" /\ file \in ExternalFiles /\ wimg = NoImage
       \/ pc = "write_image" /\ file = NoFile /\ wimg \in Containers
    /\ handles = 0
    /\ calls = <<>>
    /\ inst = "none"
    /\ rank = 0
    /\ naxes = <<LongOfInt(0), LongOfInt(0)>>
    /\ img = NoImage
    /\ anynul = 0
    /\ result = NullDriver
    /\ stderr = <<>>
    /\ exitStatus = "running"

Call(fn, s) == [fn |-> fn, s |-> s]

\* A fatal branch that returns to the caller instead.
Exit_returns(d) == pc' = "returned" /\ UNCHANGED <<stderr, exitStatus>>

\* std::exit(EXIT_FAILURE) after the diagnostic d.
Exit(d) ==
    /\ stderr' = Append(stderr, d)
    /\ exitStatus' = "EXIT_FAILURE"
    /\ pc' = "exited"

\* fits_report_error(stderr, s); std::exit(EXIT_FAILURE);
ReportError(s) == Exit(Diag("fits_report_error", s, "", <<>>))

Continue(next) == pc' = next /\ UNCHANGED <<stderr, exitStatus>>

\* abort() inside alloc(), after its diagnostic.
Abort(d) ==
    /\ stderr' = Append(stderr, d)
    /\ exitStatus' = "abort"
    /\ pc' = "exited"

Min(a, b) == IF a < b THEN a ELSE b

\* fits_get_img_size(f, nlen, naxes, &s): the first nlen extents of the image.
ImgSize(nlen, old) ==
    [i \in 1..2 |-> IF i <= Min(nlen, file.naxis) THEN file.naxes[i] ELSE old[i]]

\* ------------------------------------------------------------- from_image
\* open_image_for_reading, lines 97-99: fits_open_file.
open_file ==
    /\ pc \in {"from_image", "write_returned"}
    /\ \E s \in LibStatus(file.exists) :
        /\ calls' = Append(calls, Call("fits_open_file", s))
        /\ handles' = IF s = StatusOk THEN handles + 1 ELSE handles
        /\ IF fcheck(s) THEN ReportError(s) ELSE Continue("get_hdu_type")
    /\ UNCHANGED <<file, locals, wimg>>

\* open_image_for_reading, lines 100-114: the structural-type gate.
get_hdu_type ==
    /\ pc = "get_hdu_type"
    /\ \E s \in LibStatus(handles > 0) :
        LET hdutype == IF s = StatusOk THEN file.hdutype ELSE 0
        IN  /\ calls' = Append(calls, Call("fits_get_hdu_type", s))
            /\ IF fcheck(s) THEN ReportError(s)
               ELSE IF NotImage(hdutype)
               THEN Exit(Diag("expected IMAGE_HDU, got", hdutype, HduName(hdutype), <<>>))
               ELSE Continue("get_img_type")
    /\ UNCHANGED <<file, handles, locals, wimg>>

\* from_image, lines 139-155: the precision gate and dispatch.
get_img_type ==
    /\ pc = "get_img_type"
    /\ \E s \in LibStatus(handles > 0) :
        LET bitpix == IF s = StatusOk THEN file.bitpix ELSE 0
        IN  /\ calls' = Append(calls, Call("fits_get_img_type", s))
            /\ IF fcheck(s) THEN ReportError(s) /\ UNCHANGED inst
               ELSE IF SelectPrecision(bitpix) = "none"
               THEN Exit(TypeDiag(bitpix)) /\ UNCHANGED inst
               ELSE Continue("get_img_dim") /\ inst' = SelectPrecision(bitpix)
    /\ UNCHANGED <<file, handles, rank, naxes, img, anynul, result, wimg>>

\* from_image_helper, lines 120-133: the rank gate and dispatch.
get_img_dim ==
    /\ pc = "get_img_dim"
    /\ \E s \in LibStatus(handles > 0) :
        LET naxis == IF s = StatusOk THEN file.naxis ELSE 0
        IN  /\ calls' = Append(calls, Call("fits_get_img_dim", s))
            /\ IF fcheck(s) THEN ReportError(s) /\ UNCHANGED rank
               ELSE IF SelectRank(naxis) = 0
               THEN /\ Exit(Diag("expected 1-dimensional or 2-dimensional data, got",
                              naxis, "", <<>>))
                    /\ UNCHANGED rank
               ELSE Continue("get_img_size") /\ rank' = SelectRank(naxis)
    /\ UNCHANGED <<file, handles, inst, naxes, img, anynul, result, wimg>>

\* read_image_data_1d / _2d up to img.alloc(): lines 63-72 and 81-89.
get_img_size ==
    /\ pc = "get_img_size"
    /\ \E s \in LibStatus(handles > 0) :
        LET nx == IF s = StatusOk THEN ImgSize(rank, naxes) ELSE naxes
            im == Image(inst, NarrowExtents(rank, nx))
            called == Append(calls, Call("fits_get_img_size", s))
        IN  /\ naxes' = nx
            /\ IF fcheck(s)
               THEN ReportError(s) /\ calls' = called /\ UNCHANGED img
               ELSE \E v \in verify_dim(rank, nx) :
                    IF v # "ok"
                    THEN Exit(Diag(v, 0, "", SubSeq(nx, 1, rank))) /\ calls' = called /\ UNCHANGED img
                    ELSE /\ calls' = Append(called, Call("alloc", StatusOk))
                         /\ IF AllocFails(im)
                            THEN Abort(Diag("alloc", 0, "", <<>>)) /\ img' = im
                            ELSE /\ Continue("read_img")
                                 /\ img' = [im EXCEPT !.allocated = TRUE]
    /\ UNCHANGED <<file, handles, inst, rank, anynul, result, wimg>>

\* read_image_data_1d / _2d, lines 73 and 90: fits_read_img.
read_img ==
    /\ pc = "read_img"
    /\ \E s \in LibStatus(handles > 0 /\ Size(img.ext) <= Len(file.data)) :
        LET nelem == Size(img.ext)
            undefined == \E i \in 1..nelem : file.data[i] = QNaN
        IN  /\ calls' = Append(calls, Call("fits_read_img", s))
            /\ IF s = StatusOk
               THEN /\ img' = [img EXCEPT !.p = [i \in 1..nelem |->
                               ReadPix(file.data[i], get_fits_type(inst), nulval(inst))]]
                    /\ anynul' = IF undefined THEN 1 ELSE 0
               ELSE UNCHANGED <<img, anynul>>
            /\ IF fcheck(s) THEN ReportError(s) ELSE Continue("close_file")
    /\ UNCHANGED <<file, handles, inst, rank, naxes, result, wimg>>

\* read_image_data_1d / _2d, lines 74-75 and 91-92, then new Driver.
close_file ==
    /\ pc = "close_file"
    /\ \E s \in LibStatus(handles > 0) :
        /\ handles' = IF s = StatusOk THEN handles - 1 ELSE handles
        /\ IF fcheck(s)
           THEN /\ ReportError(s)
                /\ calls' = Append(calls, Call("fits_close_file", s))
                /\ UNCHANGED result
           ELSE /\ Continue("returned")
                /\ calls' = Append(Append(calls, Call("fits_close_file", s)),
                                   Call("new Driver", StatusOk))
                /\ result' = Driver(inst, img)
    /\ UNCHANGED <<file, inst, rank, naxes, img, anynul, wimg>>

\* ------------------------------------------------------------ write_image
\* lines 162-164 and 176-178: fits_create_file.
create_file ==
    /\ pc = "write_image"
    /\ \E s \in LibStatus(~file.exists) :
        /\ calls' = Append(calls, Call("fits_create_file", s))
        /\ handles' = IF s = StatusOk THEN handles + 1 ELSE handles
        /\ file' = IF s = StatusOk THEN [NoFile EXCEPT !.exists = TRUE] ELSE file
        /\ IF fcheck(s) THEN ReportError(s) ELSE Continue("create_img")
    /\ UNCHANGED <<locals, wimg>>

\* lines 165-166 and 179-180: fits_create_img.
create_img ==
    /\ pc = "create_img"
    /\ \E s \in LibStatus(handles > 0) :
        /\ calls' = Append(calls, Call("fits_create_img", s))
        /\ file' = IF s = StatusOk
                   THEN [file EXCEPT !.hdutype = IMAGE_HDU,
                                     !.bitpix = get_fits_bitpix(wimg.T),
                                     !.naxis = Len(wimg.ext),
                                     !.naxes = WriteNaxes(wimg)]
                   ELSE file
        /\ IF fcheck(s) THEN ReportError(s) ELSE Continue("write_imgnull")
    /\ UNCHANGED <<handles, locals, wimg>>

\* lines 167-168 and 181-182: fits_write_imgnull.
write_imgnull ==
    /\ pc = "write_imgnull"
    /\ \E s \in LibStatus(handles > 0) :
        /\ calls' = Append(calls, Call("fits_write_imgnull", s))
        /\ file' = IF s = StatusOk
                   THEN [file EXCEPT !.data = [i \in 1..Size(wimg.ext) |->
                             WritePix(wimg.p[i], nulval(wimg.T), file.bitpix)]]
                   ELSE file
        /\ IF fcheck(s) THEN ReportError(s) ELSE Continue("write_close")
    /\ UNCHANGED <<handles, locals, wimg>>

\* write_image returning without closing the file.
write_close_skipped ==
    /\ pc = "write_close"
    /\ pc' = "write_returned"
    /\ UNCHANGED <<file, handles, calls, locals, stderr, exitStatus, wimg>>

\* lines 169-170 and 183-184: fits_close_file, then return.
write_close ==
    /\ pc = "write_close"
    /\ \E s \in LibStatus(handles > 0) :
        /\ calls' = Append(calls, Call("fits_close_file", s))
        /\ handles' = IF s = StatusOk THEN handles - 1 ELSE handles
        /\ IF fcheck(s) THEN ReportError(s) ELSE Continue("write_returned")
    /\ UNCHANGED <<file, locals, wimg>>

Next ==
    \/ open_file
    \/ get_hdu_type
    \/ get_img_type
    \/ get_img_dim
    \/ get_img_size
    \/ read_img
    \/ close_file
    \/ create_file
    \/ create_img
    \/ write_imgnull
    \/ write_close

Spec == Init /\ [][Next]_vars

\* ------------------------------------------------------------- properties
Reached(fn) == \E i \in DOMAIN calls : calls[i].fn = fn

Succeeded(fn) == \E i \in DOMAIN calls : calls[i] = Call(fn, StatusOk)

Count(fn) == Cardinality({i \in DOMAIN calls : calls[i].fn = fn})

LastDiag == stderr[Len(stderr)]

\* The program is inside from_image or has left it.
InLoad == Reached("fits_open_file")

\* C1: from_image has no error-return path: it ends by returning a non-null
\* Driver, or the process has ended with a failure status after a diagnostic
\* was written; a null handle is never returned.
C1_NoErrorReturn ==
    /\ pc = "returned" <=> ~result.null
    /\ pc = "returned" => exitStatus = "running"
    /\ pc = "exited" <=> exitStatus # "running"
    /\ pc = "exited" => Len(stderr) > 0 /\ result.null
    /\ pc = "returned" => calls[Len(calls)] = Call("new Driver", StatusOk)

C1_Witness ==
    /\ pc = "returned" /\ ~result.null /\ wimg = NoImage
    /\ result.T = "float" /\ result.rank = 2

\* C2 (as stated): for a 2-axis image, x < 1 or y < 1 ends in "too small",
\* x, y >= 1 with x*y >= 2^31-1 ends in "too large", every other pair
\* passes the gate, and no pair with x*y >= 2^31-1 reaches allocation.
C2_Gate2D ==
    (rank = 2 /\ Succeeded("fits_get_img_size")) =>
        LET x == naxes[1]
            y == naxes[2]
            small == LongLt1(x) \/ LongLt1(y)
            large == ~small /\ BytesGeIntMax(MulBytes(x, y))
        IN  /\ small => pc = "exited" /\ LastDiag = Diag("too small", 0, "", <<x, y>>)
            /\ large => pc = "exited" /\ LastDiag = Diag("too large", 0, "", <<x, y>>)
            /\ (~small /\ ~large) => Reached("alloc")
            /\ Reached("alloc") => ~small /\ ~large

\* C3: for a 1-axis image, x < 1 ends in "too small", x >= 2^31-1 ends in
\* "too large", and every x in 1..2^31-2 passes the gate and yields a
\* container of exactly x elements.
C3_Gate1D ==
    (rank = 1 /\ Succeeded("fits_get_img_size")) =>
        LET x == naxes[1]
            small == LongLt1(x)
            large == ~small /\ LongGeIntMax(x)
        IN  /\ small => pc = "exited" /\ LastDiag = Diag("too small", 0, "", <<x>>)
            /\ large => pc = "exited" /\ LastDiag = Diag("too large", 0, "", <<x>>)
            /\ (~small /\ ~large) =>
                /\ Reached("alloc")
                /\ img.allocated
                /\ Len(img.ext) = 1
                /\ LongOfInt(Size(img.ext)) = x
                /\ Succeeded("fits_read_img") => Len(img.p) = Size(img.ext)
                /\ pc = "returned" => result.img = img

C3_Witness ==
    /\ pc = "returned" /\ rank = 1 /\ wimg = NoImage
    /\ naxes[1] = LongOfInt(1) /\ Len(result.img.p) = 1

C5_RankGate ==
    /\ Succeeded("fits_get_img_dim") =>
        /\ rank = 1 <=> file.naxis = 1
        /\ rank = 2 <=> file.naxis = 2
        /\ file.naxis \notin {1, 2} =>
            /\ pc = "exited" /\ exitStatus = "EXIT_FAILURE"
            /\ LastDiag.msg = "expected 1-dimensional or 2-dimensional data, got"
            /\ LastDiag.num = file.naxis
            /\ ~Reached("fits_get_img_size")
    /\ (Reached("alloc") \/ Reached("fits_read_img") \/ img # NoImage) =>
        /\ file.naxis \in {1, 2}
        /\ Len(img.ext) = file.naxis
    /\ pc = "returned" => result.rank = file.naxis /\ Len(result.img.ext) = file.naxis

C5_Witness ==
    /\ pc = "exited" /\ Succeeded("fits_get_img_dim")
    /\ file.naxis = 3 /\ LastDiag.num = 3

\* C6: write_image to a fresh path followed by from_image on that path
\* returns a Driver of the same precision and rank whose container has the
\* same extents in the same order and the same pixel at every index, the
\* quiet-NaN sentinel included.
C6_RoundTrip ==
    (pc = "returned" /\ wimg # NoImage) =>
        /\ result.T = wimg.T
        /\ result.rank = Len(wimg.ext)
        /\ result.img.T = wimg.T
        /\ result.img.ext = wimg.ext
        /\ result.img.p = wimg.p
        /\ \A i \in DOMAIN wimg.p : wimg.p[i] = QNaN <=> result.img.p[i] = QNaN

C6_Witness ==
    /\ pc = "returned" /\ wimg # NoImage
    /\ wimg.T = "double" /\ wimg.ext = <<1, 2>> /\ wimg.p = <<QNaN, 3>>

\* C7: at most one file handle is open at any moment; on a successful load
\* the close of the source handle is the last library call and comes after
\* the pixel read; when from_image or write_image returns, the handle the
\* call opened has been closed.
C7_HandleDiscipline ==
    /\ handles \in {0, 1}
    /\ pc \in {"returned", "write_returned"} => handles = 0
    /\ pc = "returned" =>
        LET n == Len(calls)
        IN  /\ calls[n] = Call("new Driver", StatusOk)
            /\ calls[n - 1] = Call("fits_close_file", StatusOk)
            /\ calls[n - 2] = Call("fits_read_img", StatusOk)
    /\ pc = "write_returned" => calls[Len(calls)] = Call("fits_close_file", StatusOk)

C7_Witness ==
    /\ pc = "close_file" /\ handles = 1 /\ wimg # NoImage
    /\ Count("fits_close_file") = 1

\* C8: in load and store, a non-zero status from any library call ends the
\* process with failure right after it is reported, and no later library
\* call, allocation or Driver construction happens.
C8_IOFailureFatal ==
    \A i \in DOMAIN calls :
        calls[i].s # StatusOk =>
            /\ i = Len(calls)
            /\ pc = "exited"
            /\ exitStatus = "EXIT_FAILURE"
            /\ LastDiag.msg = "fits_report_error" /\ LastDiag.num = calls[i].s
            /\ result.null

C8_Witness ==
    /\ pc = "exited" /\ Len(calls) > 0
    /\ calls[Len(calls)].fn = "fits_read_img" /\ calls[Len(calls)].s # StatusOk

LoadOrder ==
    << "fits_open_file", "fits_get_hdu_type", "fits_get_img_type",
       "fits_get_img_dim", "fits_get_img_size", "alloc", "fits_read_img",
       "fits_close_file", "new Driver" >>

\* The steps of the load: the calls after those of a preceding write_image.
LoadCalls ==
    IF wimg = NoImage THEN calls
    ELSE SubSeq(calls, Count("fits_create_file") + Count("fits_create_img")
                       + Count("fits_write_imgnull") + 2, Len(calls))

\* C9: a load takes its steps in one fixed order, none repeated: open,
\* structural-type check, precision probe, rank probe, extent validation,
\* allocation, pixel read, close, wrap; a file is rejected by the earliest
\* gate it violates, and allocation and pixel read come after all four gates.
C9_GateOrder ==
    /\ InLoad => /\ Len(LoadCalls) <= Len(LoadOrder)
                 /\ \A i \in DOMAIN LoadCalls : LoadCalls[i].fn = LoadOrder[i]
    /\ (file.exists /\ file.hdutype # IMAGE_HDU) => ~Reached("fits_get_img_type")
    /\ (file.exists /\ file.hdutype # IMAGE_HDU /\ Succeeded("fits_get_hdu_type")) =>
            /\ pc = "exited" /\ exitStatus = "EXIT_FAILURE"
            /\ LastDiag.msg = "expected IMAGE_HDU, got"
            /\ LastDiag.name = HduName(file.hdutype)
    /\ (InLoad /\ file.bitpix \notin {FLOAT_IMG, DOUBLE_IMG}) => ~Reached("fits_get_img_dim")
    /\ (InLoad /\ file.naxis \notin {1, 2}) => ~Reached("fits_get_img_size")
    /\ (Reached("alloc") \/ Reached("fits_read_img")) =>
        /\ file.hdutype = IMAGE_HDU
        /\ file.bitpix \in {FLOAT_IMG, DOUBLE_IMG}
        /\ file.naxis \in {1, 2}
        /\ "ok" \in verify_dim(rank, naxes)

C9_Witness ==
    /\ pc = "exited" /\ file.hdutype = IMAGE_HDU /\ file.bitpix = 32 /\ file.naxis = 3
    /\ Succeeded("fits_get_img_type")

\* C10 (as stated): alloc() is called exactly once, after validation, when
\* each stored extent equals the extent the file reported and lies in
\* 1..2^31-2, and the element count is the product of the file's extents,
\* below 2^31-1; the pixel read asks for that many elements.
C10_AllocInvariant ==
    /\ Count("alloc") <= 1
    /\ Reached("fits_read_img") => Count("alloc") = 1
    /\ Reached("alloc") =>
        /\ Succeeded("fits_get_img_size")
        /\ \A i \in 1..rank :
            /\ LongOfInt(img.ext[i]) = naxes[i]
            /\ img.ext[i] >= 1 /\ img.ext[i] <= INT_MAX - 1
        /\ ValidExtents(img.ext)
        /\ rank = 2 =>
            MulBytes(naxes[1], naxes[2]) =
                LongOfInt(Size(img.ext)) \o [i \in 1..LongBytes |-> 0]
    /\ Succeeded("fits_read_img") => Len(img.p) = Size(img.ext)

=============================================================================
